---- MODULE Spec2Model ----
(***************************************************************************)
(* Voice house security system: the controller (app.py) and the simulated  *)
(* device agents (iot_device.py), connected by two MQTT topics.            *)
(*                                                                         *)
(* Threads modelled:                                                       *)
(*   - the device process' network loop, running iot_device.on_message and *)
(*     the agents' process_command                      (variable cmdh);   *)
(*   - the motion sensor's simulate_motion thread       (variable sim);    *)
(*   - the controller's MQTT thread, running app.on_message (variable om); *)
(*   - an observer-serving thread, running handle_connect or               *)
(*     handle_voice_command                             (variable obs).    *)
(* Every read or write of a shared Python object (a device's self.state,   *)
(* device_states, state_lock, the two topics) is a step of its own.        *)
(***************************************************************************)
EXTENDS Naturals, Sequences, FiniteSets, TLC

VARIABLES
    devState,       \* iot_device.py: devices[d].state
    cmdChan,        \* messages in flight on home/security/command
    statusChan,     \* messages in flight on home/security/status
    cmdh,           \* the device process' command handler (on_message/process_command)
    sim,            \* MotionSensor.simulate_motion thread
    device_states,  \* app.py: device_states[d]["state"]
    state_lock,     \* app.py: state_lock (its holder, or "free")
    om,             \* the controller's on_message handler
    omOut,          \* what the last on_message call sent to the observers
    lastApplied,    \* history: the state last written to the Store per device
    obs,            \* observer-serving thread (handle_connect / handle_voice_command)
    running,        \* the processes started: "devices" (iot_device.py), "controller" (app.py)
    nInputs         \* observer events (connects, text commands) so far

vars == <<devState, cmdChan, statusChan, cmdh, sim, device_states, state_lock,
          om, omOut, lastApplied, obs, running, nInputs>>

devVars == <<devState, cmdChan, statusChan, cmdh, sim>>
appVars == <<device_states, state_lock, om, omOut, lastApplied, obs, running>>
envVars == <<running>>

-----------------------------------------------------------------------------
(* Bounds of the model *)

MaxStatus == 4      \* status messages in flight
MaxCmd == 1         \* command messages in flight
MaxPending == 1     \* messages another publisher may have in flight on a topic
MaxInputs == 2      \* observer events (connects, text commands) in a run of both processes
MaxWords == 3       \* words in a text given to process_nlp

-----------------------------------------------------------------------------
(* Values *)

None == "None"              \* Python's None (what dict.get gives for a missing key)
NotYet == "-"               \* history: no status applied yet
Unsupported == "<unsupported>"

DOOR == "door_lock_1"
ALARM == "alarm_system"
SENSOR == "motion_sensor_1"

DeviceIds == {DOOR, ALARM, SENSOR}

\* the iteration order of the dict literal device_states
DeviceOrder == <<DOOR, ALARM, SENSOR>>

MQTT_TOPIC_COMMAND == "home/security/command"
MQTT_TOPIC_STATUS == "home/security/status"

DeviceUp == "devices" \in running
ControllerUp == "controller" \in running

\* the two on_connect: the device process subscribes to the command topic,
\* the controller to the status topic
Subscribed(topic) ==
    \/ topic = MQTT_TOPIC_COMMAND /\ DeviceUp
    \/ topic = MQTT_TOPIC_STATUS /\ ControllerUp

\* client.publish at QoS 0: the broker queues the message for the topic's
\* subscriber, or drops it when nothing has subscribed
Publish(chan, topic, msg) == IF Subscribed(topic) THEN Append(chan, msg) ELSE chan

\* the model's bound on the messages in flight on a topic
CanPublish(chan, topic, cap) == Subscribed(topic) => Len(chan) < cap

CommandMsg(d, c) == [json |-> TRUE, device_id |-> d, command |-> c]
StatusMsg(d, s) == [json |-> TRUE, device_id |-> d, state |-> s]

\* a payload json.loads rejects
BadCommand == [json |-> FALSE, device_id |-> None, command |-> None]
BadStatus == [json |-> FALSE, device_id |-> None, state |-> None]

-----------------------------------------------------------------------------
(* Text *)

UpperCase == "ABCDEFGHIJKLMNOPQRSTUVWXYZ"
LowerCase == "abcdefghijklmnopqrstuvwxyz"

LowerChar(c) ==
    IF \E i \in 1..26 : SubSeq(UpperCase, i, i) = c
    THEN LET i == CHOOSE j \in 1..26 : SubSeq(UpperCase, j, j) = c
         IN SubSeq(LowerCase, i, i)
    ELSE c

RECURSIVE Lower(_)
Lower(s) ==
    IF Len(s) = 0 THEN ""
    ELSE LowerChar(SubSeq(s, 1, 1)) \o Lower(SubSeq(s, 2, Len(s)))

\* Python's  k in text  for strings
Contains(text, k) ==
    \E i \in 1..(Len(text) + 1) :
        i + Len(k) - 1 <= Len(text) /\ SubSeq(text, i, i + Len(k) - 1) = k

-----------------------------------------------------------------------------
(* iot_device.py: the device agents *)

\* __main__: the three agents and their initial states
InitialDeviceState ==
    [d \in DeviceIds |->
        IF d = DOOR THEN "locked" ELSE IF d = ALARM THEN "disarmed" ELSE "inactive"]

\* SimulatedDevice.__init__ publishes the initial status; the alarm is built
\* first, then the dict literal builds the door lock and the motion sensor
InitialStatusChan ==
    << StatusMsg(ALARM, InitialDeviceState[ALARM]),
       StatusMsg(DOOR, InitialDeviceState[DOOR]),
       StatusMsg(SENSOR, InitialDeviceState[SENSOR]) >>

\* a faulty DoorLock.process_command, without  if command in ["lock", "unlock"]
DoorLockNewStateUnchecked(command) ==
    IF command = "lock" THEN "locked" ELSE "unlocked"

\* DoorLock.process_command: the state a command asks for
DoorLockNewState(command) ==
    IF command \in {"lock", "unlock"}
    THEN IF command = "lock" THEN "locked" ELSE "unlocked"
    ELSE Unsupported

\* AlarmSystem.process_command: the state a command asks for
AlarmSystemNewState(command) ==
    IF command \in {"armed", "disarmed"} THEN command ELSE Unsupported

\* MotionSensor.process_command: cmd = (command or "").lower(), then the two tuples
MotionSensorNewState(command) ==
    LET cmd == IF command = None THEN "" ELSE Lower(command)
    IN  IF cmd \in {"active", "activate", "on", "enable"} THEN "active"
        ELSE IF cmd \in {"inactive", "deactivate", "off", "disable"} THEN "inactive"
        ELSE Unsupported

\* a faulty dispatch: every agent behaves as a door lock
NewStateAsDoorLock(d, command) == DoorLockNewState(command)

\* dispatch on the agent's class
NewState(d, command) ==
    IF d = DOOR THEN DoorLockNewState(command)
    ELSE IF d = ALARM THEN AlarmSystemNewState(command)
    ELSE MotionSensorNewState(command)

\* a faulty comparison: the agent transitions and publishes on every command
MustTransitionAlways(state, new_state) == TRUE

\* process_command:  if self.state != new_state
MustTransition(state, new_state) == state # new_state

\* a faulty routing: an id that is no device falls back to the door lock
RouteFallback(device_id) == IF device_id \in DeviceIds THEN device_id ELSE DOOR

\* on_message:  if device_id in devices: devices[device_id] ... else "unknown
\* device": the agent a device id selects, or None
Route(device_id) == IF device_id \in DeviceIds THEN device_id ELSE None

\* The handler's record keeps, after process_command has returned, what the
\* call did (dev, new, before, events, payload) until the next message:
\*   dev     the device id of the command
\*   new     the state the command maps to (Unsupported: rejected; None: no
\*           agent was called)
\*   before  self.state as read by  if self.state != new_state
\*   events  the Status Events the call has published
\*   payload the state in the Status Event being published
CmdIdle ==
    [pc |-> "idle", dev |-> None, new |-> None, before |-> None,
     events |-> 0, payload |-> None]

\* on_message up to process_command's comparison of self.state with new_state:
\* decode, route, map the command, read self.state
DevOnMessage ==
    /\ DeviceUp
    /\ cmdh.pc = "idle"
    /\ cmdChan # << >>
    /\ LET msg == Head(cmdChan)
           d == Route(msg.device_id)
       IN  /\ cmdChan' = Tail(cmdChan)
           /\ IF ~msg.json
              THEN \* JSONDecodeError: caught, printed
                   cmdh' = CmdIdle
              ELSE IF d = None
              THEN \* "unknown device": nothing is called
                   cmdh' = [CmdIdle EXCEPT !.dev = msg.device_id]
              ELSE IF NewState(d, msg.command) = Unsupported
              THEN \* rejected by the agent before it reads self.state
                   cmdh' = [CmdIdle EXCEPT !.dev = d, !.new = Unsupported]
              ELSE cmdh' = [CmdIdle EXCEPT
                              !.pc = IF MustTransition(devState[d], NewState(d, msg.command))
                                     THEN "write"
                                     ELSE "idle",       \* "Already in ... state"
                              !.dev = d,
                              !.new = NewState(d, msg.command),
                              !.before = devState[d]]
    /\ UNCHANGED <<devState, statusChan, sim>>
    /\ UNCHANGED appVars
    /\ UNCHANGED envVars
    /\ UNCHANGED nInputs

\* process_command:  self.state = new_state
DevWriteState ==
    /\ DeviceUp
    /\ cmdh.pc = "write"
    /\ devState' = [devState EXCEPT ![cmdh.dev] = cmdh.new]
    /\ cmdh' = [cmdh EXCEPT !.pc = "pub_read"]
    /\ UNCHANGED <<cmdChan, statusChan, sim>>
    /\ UNCHANGED appVars
    /\ UNCHANGED envVars
    /\ UNCHANGED nInputs

\* publish_status:  payload = json.dumps({..., "state": self.state})
DevPublishRead ==
    /\ DeviceUp
    /\ cmdh.pc = "pub_read"
    /\ cmdh' = [cmdh EXCEPT !.pc = "pub_send", !.payload = devState[cmdh.dev]]
    /\ UNCHANGED <<devState, cmdChan, statusChan, sim>>
    /\ UNCHANGED appVars
    /\ UNCHANGED envVars
    /\ UNCHANGED nInputs

\* publish_status:  self.client.publish(MQTT_TOPIC_STATUS, payload)
DevPublishSend ==
    /\ DeviceUp
    /\ cmdh.pc = "pub_send"
    /\ CanPublish(statusChan, MQTT_TOPIC_STATUS, MaxStatus)
    /\ statusChan' = Publish(statusChan, MQTT_TOPIC_STATUS,
                             StatusMsg(cmdh.dev, cmdh.payload))
    /\ cmdh' = [cmdh EXCEPT !.pc = "idle", !.events = cmdh.events + 1]
    /\ UNCHANGED <<devState, cmdChan, sim>>
    /\ UNCHANGED appVars
    /\ UNCHANGED envVars
    /\ UNCHANGED nInputs

-----------------------------------------------------------------------------
(* iot_device.py: MotionSensor.simulate_motion *)

SimSleep == [pc |-> "sleep", payload |-> None]

\* line 100, first operand:  self.alarm.state == "armed"
SimCheckAlarm ==
    /\ DeviceUp
    /\ sim.pc = "sleep"
    /\ sim' = IF devState[ALARM] = "armed" THEN [sim EXCEPT !.pc = "check_self"]
              ELSE sim
    /\ UNCHANGED <<devState, cmdChan, statusChan, cmdh>>
    /\ UNCHANGED appVars
    /\ UNCHANGED envVars
    /\ UNCHANGED nInputs

\* line 100, the rest:  self.state == "inactive" and random.random() < 0.3
SimCheckSelf ==
    /\ DeviceUp
    /\ sim.pc = "check_self"
    /\ \E draw \in BOOLEAN :
          sim' = IF devState[SENSOR] = "inactive" /\ draw
                 THEN [sim EXCEPT !.pc = "write_active"]
                 ELSE SimSleep
    /\ UNCHANGED <<devState, cmdChan, statusChan, cmdh>>
    /\ UNCHANGED appVars
    /\ UNCHANGED envVars
    /\ UNCHANGED nInputs

\* line 102:  self.state = "active"
SimWriteActive ==
    /\ DeviceUp
    /\ sim.pc = "write_active"
    /\ devState' = [devState EXCEPT ![SENSOR] = "active"]
    /\ sim' = [sim EXCEPT !.pc = "pub_read_active"]
    /\ UNCHANGED <<cmdChan, statusChan, cmdh>>
    /\ UNCHANGED appVars
    /\ UNCHANGED envVars
    /\ UNCHANGED nInputs

\* publish_status (lines 103 and 107):  payload = json.dumps(... self.state ...)
SimPublishRead ==
    /\ DeviceUp
    /\ sim.pc \in {"pub_read_active", "pub_read_inactive"}
    /\ sim' = [pc |-> IF sim.pc = "pub_read_active" THEN "pub_send_active"
                      ELSE "pub_send_inactive",
               payload |-> devState[SENSOR]]
    /\ UNCHANGED <<devState, cmdChan, statusChan, cmdh>>
    /\ UNCHANGED appVars
    /\ UNCHANGED envVars
    /\ UNCHANGED nInputs

\* publish_status (lines 103 and 107):  self.client.publish(...); after the
\* first one the thread holds in time.sleep(5)
SimPublishSend ==
    /\ DeviceUp
    /\ sim.pc \in {"pub_send_active", "pub_send_inactive"}
    /\ CanPublish(statusChan, MQTT_TOPIC_STATUS, MaxStatus)
    /\ statusChan' = Publish(statusChan, MQTT_TOPIC_STATUS,
                             StatusMsg(SENSOR, sim.payload))
    /\ sim' = IF sim.pc = "pub_send_active" THEN [pc |-> "hold", payload |-> None]
              ELSE SimSleep
    /\ UNCHANGED <<devState, cmdChan, cmdh>>
    /\ UNCHANGED appVars
    /\ UNCHANGED envVars
    /\ UNCHANGED nInputs

\* line 106:  self.state = "inactive"
SimWriteInactive ==
    /\ DeviceUp
    /\ sim.pc = "hold"
    /\ devState' = [devState EXCEPT ![SENSOR] = "inactive"]
    /\ sim' = [sim EXCEPT !.pc = "pub_read_inactive"]
    /\ UNCHANGED <<cmdChan, statusChan, cmdh>>
    /\ UNCHANGED appVars
    /\ UNCHANGED envVars
    /\ UNCHANGED nInputs

-----------------------------------------------------------------------------
(* app.py: the Device State Store and on_message *)

\* device_states as first assigned (only the "state" fields change)
InitialStore ==
    [d \in DeviceIds |->
        IF d = DOOR THEN "locked" ELSE IF d = ALARM THEN "disarmed" ELSE "inactive"]

\* a faulty lock: acquire never waits
LockFreeAlways == TRUE

\* state_lock = Lock():  acquire succeeds only on a free lock
LockFree == state_lock = "free"

\* on_message:  if device_id in device_states
InStore(device_id) == device_id \in DOMAIN device_states

\* a faulty write: the Store is rebuilt from its initial contents around
\* the one new state
ApplyStatusRebuilding(store, device_id, state) ==
    [d \in DeviceIds |-> IF d = device_id THEN state ELSE InitialStore[d]]

\* on_message:  device_states[device_id]["state"] = state
ApplyStatus(store, device_id, state) == [store EXCEPT ![device_id] = state]

OmIdle == [pc |-> "idle", device_id |-> None, state |-> None]
NoOutput == [log |-> FALSE, snap |-> None]

\* on_message down to  with state_lock:  decode, json.loads, the two data.get
OnMessageReceive ==
    /\ ControllerUp
    /\ om.pc = "idle"
    /\ statusChan # << >>
    /\ LET msg == Head(statusChan)
       IN  /\ statusChan' = Tail(statusChan)
           /\ om' = IF msg.json
                    THEN [pc |-> "acquire", device_id |-> msg.device_id,
                          state |-> msg.state]
                    ELSE OmIdle     \* JSONDecodeError: caught, printed
    /\ omOut' = NoOutput
    /\ UNCHANGED <<devState, cmdChan, cmdh, sim, device_states, state_lock,
                   lastApplied, obs, running>>
    /\ UNCHANGED nInputs

\* on_message:  with state_lock  (entry)
OnMessageAcquire ==
    /\ ControllerUp
    /\ om.pc = "acquire"
    /\ LockFree
    /\ state_lock' = "mqtt"
    /\ om' = [om EXCEPT !.pc = "locked"]
    /\ UNCHANGED <<devState, cmdChan, statusChan, cmdh, sim, device_states,
                   omOut, lastApplied, obs, running>>
    /\ UNCHANGED nInputs

\* on_message: the body of the with block (membership test, write, log_event,
\* socketio.emit('status_update')) and the release of the lock
OnMessageApply ==
    /\ ControllerUp
    /\ om.pc = "locked"
    /\ IF InStore(om.device_id)
       THEN /\ device_states' = ApplyStatus(device_states, om.device_id, om.state)
            /\ lastApplied' = [lastApplied EXCEPT ![om.device_id] = om.state]
            /\ omOut' = [log |-> TRUE, snap |-> device_states']
       ELSE UNCHANGED <<device_states, lastApplied, omOut>>
    /\ state_lock' = "free"
    /\ om' = OmIdle
    /\ UNCHANGED <<devState, cmdChan, statusChan, cmdh, sim, obs, running>>
    /\ UNCHANGED nInputs

-----------------------------------------------------------------------------
(* app.py: process_nlp *)

Directive(device, action) == [device |-> device, action |-> action]

QueryStatus == Directive(None, "query_status")

ContainsAny(text, keys) == \E k \in keys : Contains(text, k)

\* a faulty door rule: the directive carries the state, not the command
DoorRuleStates(text) ==
    IF Contains(text, "front door") \/ Contains(text, "front-door")
    THEN IF Contains(text, "unlock") THEN << Directive(DOOR, "unlocked") >>
         ELSE IF Contains(text, "lock") THEN << Directive(DOOR, "locked") >>
         ELSE << >>
    ELSE << >>

\* process_nlp, "Front door lock":  unlock is looked for before lock
DoorRule(text) ==
    IF Contains(text, "front door") \/ Contains(text, "front-door")
    THEN IF Contains(text, "unlock") THEN << Directive(DOOR, "unlock") >>
         ELSE IF Contains(text, "lock") THEN << Directive(DOOR, "lock") >>
         ELSE << >>
    ELSE << >>

\* a faulty alarm rule: arm is looked for before disarm
AlarmRuleArmFirst(text) ==
    IF Contains(text, "alarm")
    THEN IF Contains(text, "arm") THEN << Directive(ALARM, "armed") >>
         ELSE IF Contains(text, "disarm") THEN << Directive(ALARM, "disarmed") >>
         ELSE << >>
    ELSE << >>

\* process_nlp, "Alarm system":  disarm is looked for before arm
AlarmRule(text) ==
    IF Contains(text, "alarm")
    THEN IF Contains(text, "disarm") THEN << Directive(ALARM, "disarmed") >>
         ELSE IF Contains(text, "arm") THEN << Directive(ALARM, "armed") >>
         ELSE << >>
    ELSE << >>

\* process_nlp, "Motion / living room sensor":  two independent ifs
SensorRule(text) ==
    LET living == Contains(text, "living room") \/ Contains(text, "living-room")
        sensorOn ==
            IF living /\ ContainsAny(text, {"activate", "turn on", "enable", "on"})
            THEN << Directive(SENSOR, "active") >> ELSE << >>
        sensorOff ==
            IF living /\ ContainsAny(text, {"deactivate", "turn off", "disable", "off"})
            THEN << Directive(SENSOR, "inactive") >> ELSE << >>
    IN  sensorOn \o sensorOff

\* process_nlp, "Status query (special action)"
StatusRule(text) ==
    IF Contains(text, "status") \/ Contains(text, "what is the status")
       \/ Contains(text, "report")
    THEN << QueryStatus >> ELSE << >>

\* a faulty process_nlp: the status query is appended first
process_nlp_status_first(raw) ==
    LET text == IF raw = None THEN "" ELSE Lower(raw)
    IN  StatusRule(text) \o DoorRule(text) \o AlarmRule(text) \o SensorRule(text)

\* process_nlp: text = (text or "").lower(), then the four keyword rules, each
\* appending to commands
process_nlp(raw) ==
    LET text == IF raw = None THEN "" ELSE Lower(raw)
    IN  DoorRule(text) \o AlarmRule(text) \o SensorRule(text) \o StatusRule(text)

\* the texts observers submit ("" stands for an absent or empty text)
Utterances ==
    { "", "hello",
      "unlock the front door", "lock the front door",
      "arm the alarm", "disarm the alarm",
      "activate living room sensor", "turn off living room sensor",
      "turn on living room sensor and report status" }

\* the words texts are made of: the keywords of the four rules (one of them
\* capitalised), and a word that is no keyword
Words ==
    { "front door", "Unlock", "lock", "alarm", "disarm", "arm",
      "living room", "turn on", "turn off", "deactivate", "status", "motion" }

\* the texts of up to n words
RECURSIVE PhrasesOf(_)
PhrasesOf(n) ==
    IF n = 1 THEN Words
    ELSE LET shorter == PhrasesOf(n - 1)
         IN  shorter \cup { p \o " " \o w : p \in shorter, w \in Words }

\* the texts of up to MaxWords words
Phrases == PhrasesOf(MaxWords)

\* process_nlp over the texts submitted
NlpResults == [u \in Utterances \cup Phrases |-> process_nlp(u)]

-----------------------------------------------------------------------------
(* app.py: handle_connect and handle_voice_command *)

IsQuery(res) == res.action = "query_status"

\* handle_voice_command:  if device and action and action != "query_status"
IsActionable(res) ==
    res.device # None /\ res.action # None /\ res.action # "query_status"

NoSnapshot == [d \in DeviceIds |-> NotYet]

\* The observer-serving thread:
\*   text     the text handle_voice_command is working on
\*   queries  the query_status results still to report
\*   todo     the actionable directives still to publish
\*   i, snap  the reader's position in device_states and what it has read
\*   tried    the publish attempts of this call so far, with their outcome
\*   logs     the log entries the second loop has emitted so far
ObsIdle ==
    [pc |-> "idle", text |-> None, queries |-> 0, todo |-> << >>, i |-> 0,
     snap |-> NoSnapshot, tried |-> << >>, logs |-> << >>]

\* handle_connect down to  with state_lock
HandleConnect ==
    /\ ControllerUp
    /\ obs.pc = "idle"
    /\ nInputs < MaxInputs
    /\ nInputs' = nInputs + 1
    /\ obs' = [ObsIdle EXCEPT !.pc = "c_acquire"]
    /\ UNCHANGED <<device_states, state_lock, om, omOut, lastApplied>>
    /\ UNCHANGED devVars
    /\ UNCHANGED envVars

\* a faulty handler: empty results make it return without a log entry
AfterNlpSilent(results) ==
    LET queries == Len(SelectSeq(results, IsQuery))
        todo == SelectSeq(results, IsActionable)
    IN  IF results = << >> THEN ObsIdle
        ELSE IF queries > 0
        THEN [ObsIdle EXCEPT !.pc = "q_acquire", !.queries = queries, !.todo = todo]
        ELSE IF todo # << >> THEN [ObsIdle EXCEPT !.pc = "publish", !.todo = todo]
        ELSE ObsIdle

\* what handle_voice_command does next with the results of process_nlp
AfterNlp(results) ==
    LET queries == Len(SelectSeq(results, IsQuery))
        todo == SelectSeq(results, IsActionable)
    IN  IF results = << >>
        THEN [ObsIdle EXCEPT !.pc = "not_understood"]   \* if not nlp_results
        ELSE IF queries > 0
        THEN [ObsIdle EXCEPT !.pc = "q_acquire", !.queries = queries, !.todo = todo]
        ELSE IF todo # << >> THEN [ObsIdle EXCEPT !.pc = "publish", !.todo = todo]
        ELSE ObsIdle

\* handle_voice_command down to the test of nlp_results, for a text drawn
\* from texts: the text is taken from the event, "Received voice command" is
\* logged, process_nlp is called
HandleVoiceOn(texts) ==
    /\ ControllerUp
    /\ obs.pc = "idle"
    /\ nInputs < MaxInputs
    /\ nInputs' = nInputs + 1
    /\ \E text \in texts :
          obs' = IF text = "" THEN ObsIdle      \* if not text_command: return
                 ELSE [AfterNlp(NlpResults[text]) EXCEPT !.text = text]
    /\ UNCHANGED <<device_states, state_lock, om, omOut, lastApplied>>
    /\ UNCHANGED devVars
    /\ UNCHANGED envVars

\* handle_voice_command on one of the texts observers submit
HandleVoiceCommand == HandleVoiceOn(Utterances)

\* handle_voice_command on any text of up to MaxWords words
HandlePhrase == HandleVoiceOn(Phrases)

\* log_event("Could not understand command ..."); return
VoiceNotUnderstood ==
    /\ ControllerUp
    /\ obs.pc = "not_understood"
    /\ obs' = ObsIdle
    /\ UNCHANGED <<device_states, state_lock, om, omOut, lastApplied>>
    /\ UNCHANGED devVars
    /\ UNCHANGED envVars
    /\ UNCHANGED nInputs

\* with state_lock  (entry), in handle_connect and in the status query
ObsAcquire ==
    /\ ControllerUp
    /\ obs.pc \in {"c_acquire", "q_acquire"}
    /\ LockFree
    /\ state_lock' = "obs"
    /\ obs' = [obs EXCEPT !.pc = IF obs.pc = "c_acquire" THEN "c_read" ELSE "q_read",
                          !.i = 1, !.snap = NoSnapshot]
    /\ UNCHANGED <<device_states, om, omOut, lastApplied>>
    /\ UNCHANGED devVars
    /\ UNCHANGED envVars
    /\ UNCHANGED nInputs

\* the reader walks device_states entry by entry: emit serialises the dict,
\* the status query's list comprehension iterates device_states.items()
ObsRead ==
    /\ ControllerUp
    /\ obs.pc \in {"c_read", "q_read"}
    /\ obs.i <= Len(DeviceOrder)
    /\ LET d == DeviceOrder[obs.i]
       IN  obs' = [obs EXCEPT !.i = obs.i + 1, !.snap[d] = device_states[d]]
    /\ UNCHANGED <<device_states, state_lock, om, omOut, lastApplied>>
    /\ UNCHANGED devVars
    /\ UNCHANGED envVars
    /\ UNCHANGED nInputs

\* the end of the with block: the snapshot is sent (or the report logged) and
\* the lock released
ObsRelease ==
    /\ ControllerUp
    /\ obs.pc \in {"c_read", "q_read"}
    /\ obs.i > Len(DeviceOrder)
    /\ state_lock' = "free"
    /\ obs' = IF obs.pc = "c_read" THEN ObsIdle
              ELSE IF obs.queries > 1
              THEN [obs EXCEPT !.pc = "q_acquire", !.queries = obs.queries - 1,
                               !.i = 0, !.snap = NoSnapshot]
              ELSE IF obs.todo # << >>
              THEN [obs EXCEPT !.pc = "publish", !.queries = 0, !.i = 0,
                               !.snap = NoSnapshot]
              ELSE ObsIdle
    /\ UNCHANGED <<device_states, om, omOut, lastApplied>>
    /\ UNCHANGED devVars
    /\ UNCHANGED envVars
    /\ UNCHANGED nInputs

\* a faulty loop: a failed publish ends the batch
AfterAttemptAbort(o) ==
    IF o.logs[Len(o.logs)] = "failed" \/ Tail(o.todo) = << >> THEN ObsIdle
    ELSE [o EXCEPT !.todo = Tail(o.todo)]

\* the for loop goes on to the next actionable directive; after the last one
\* the handler returns
AfterAttempt(o) ==
    IF Tail(o.todo) = << >> THEN ObsIdle
    ELSE [o EXCEPT !.todo = Tail(o.todo)]

\* normalize_action_to_state ("for optimistic UI updates"): defined in app.py,
\* called by nothing
normalize_action_to_state(device_id, action) ==
    IF device_id = DOOR /\ action = "unlock" THEN "unlocked"
    ELSE IF device_id = DOOR /\ action = "lock" THEN "locked"
    ELSE action

\* a faulty iteration: the Store is updated optimistically on publish
VoicePublishOptimistic ==
    /\ ControllerUp
    /\ obs.pc = "publish"
    /\ LET res == Head(obs.todo)
       IN  /\ \E ok \in BOOLEAN :
                /\ IF ok
                   THEN /\ CanPublish(cmdChan, MQTT_TOPIC_COMMAND, MaxCmd)
                        /\ cmdChan' = Publish(cmdChan, MQTT_TOPIC_COMMAND,
                                              CommandMsg(res.device, res.action))
                   ELSE cmdChan' = cmdChan
                /\ obs' = AfterAttempt(
                            [obs EXCEPT
                               !.tried = Append(obs.tried, [res |-> res, ok |-> ok]),
                               !.logs = Append(obs.logs, IF ok THEN "published"
                                                         ELSE "failed")])
           /\ device_states' =
                  [device_states EXCEPT
                     ![res.device] = normalize_action_to_state(res.device, res.action)]
    /\ UNCHANGED <<devState, statusChan, cmdh, sim, state_lock,
                   om, omOut, lastApplied, running>>
    /\ UNCHANGED nInputs

\* handle_voice_command, second loop, one iteration:  mqtt_client.publish(...)
\* queues the message, then log_event("Published command to MQTT ..."), or it
\* raises, then log_event("Failed to publish MQTT command ...")
VoicePublish ==
    /\ ControllerUp
    /\ obs.pc = "publish"
    /\ LET res == Head(obs.todo)
       IN  \E ok \in BOOLEAN :
              /\ IF ok
                 THEN /\ CanPublish(cmdChan, MQTT_TOPIC_COMMAND, MaxCmd)
                      /\ cmdChan' = Publish(cmdChan, MQTT_TOPIC_COMMAND,
                                            CommandMsg(res.device, res.action))
                 ELSE cmdChan' = cmdChan
              /\ obs' = AfterAttempt(
                          [obs EXCEPT
                             !.tried = Append(obs.tried, [res |-> res, ok |-> ok]),
                             !.logs = Append(obs.logs, IF ok THEN "published"
                                                       ELSE "failed")])
    /\ UNCHANGED <<devState, statusChan, cmdh, sim, device_states, state_lock,
                   om, omOut, lastApplied, running>>
    /\ UNCHANGED nInputs

-----------------------------------------------------------------------------
(* Other clients of the broker: anything may be published on either topic *)

\* the payloads seen on the command topic: the commands each agent accepts,
\* one it does not, a different spelling, a missing command, an id that is no
\* device, a missing id, and a payload that is not JSON
Commands ==
    { CommandMsg(DOOR, "lock"), CommandMsg(DOOR, "unlock"),
      CommandMsg(ALARM, "armed"), CommandMsg(ALARM, "disarmed"),
      CommandMsg(SENSOR, "active"), CommandMsg(SENSOR, "inactive"),
      CommandMsg(DOOR, "disarmed"), CommandMsg(ALARM, "lock"),
      CommandMsg(SENSOR, "unlock"), CommandMsg(SENSOR, "OFF"),
      CommandMsg(DOOR, None),
      CommandMsg("garage_door", "unlock"), CommandMsg(None, "lock"),
      BadCommand }

\* the payloads seen on the status topic
Statuses ==
    { StatusMsg(DOOR, "locked"), StatusMsg(DOOR, "unlocked"),
      StatusMsg(ALARM, "armed"), StatusMsg(ALARM, "disarmed"),
      StatusMsg(SENSOR, "active"), StatusMsg(SENSOR, "inactive"),
      StatusMsg(DOOR, "ajar"), StatusMsg(DOOR, None),
      StatusMsg("garage_door", "open"), StatusMsg(None, "locked"),
      BadStatus }

\* another client publishes on the command topic
CommandPublished ==
    /\ Subscribed(MQTT_TOPIC_COMMAND)
    /\ CanPublish(cmdChan, MQTT_TOPIC_COMMAND, MaxPending)
    /\ \E m \in Commands : cmdChan' = Publish(cmdChan, MQTT_TOPIC_COMMAND, m)
    /\ UNCHANGED <<devState, statusChan, cmdh, sim>>
    /\ UNCHANGED appVars
    /\ UNCHANGED envVars
    /\ UNCHANGED nInputs

\* another client publishes on the status topic
StatusPublished ==
    /\ Subscribed(MQTT_TOPIC_STATUS)
    /\ CanPublish(statusChan, MQTT_TOPIC_STATUS, MaxPending)
    /\ \E m \in Statuses : statusChan' = Publish(statusChan, MQTT_TOPIC_STATUS, m)
    /\ UNCHANGED <<devState, cmdChan, cmdh, sim>>
    /\ UNCHANGED appVars
    /\ UNCHANGED envVars
    /\ UNCHANGED nInputs

-----------------------------------------------------------------------------
(* The system *)

\* both processes started: each has subscribed (the two on_connect), the
\* agents have published their initial status, simulate_motion has started
Init ==
    /\ devState = InitialDeviceState
    /\ cmdChan = << >>
    /\ statusChan = InitialStatusChan
    /\ cmdh = CmdIdle
    /\ sim = SimSleep
    /\ device_states = InitialStore
    /\ state_lock = "free"
    /\ om = OmIdle
    /\ omOut = NoOutput
    /\ lastApplied = [d \in DeviceIds |-> NotYet]
    /\ obs = ObsIdle
    /\ running = {"devices", "controller"}
    /\ nInputs = 0

\* both processes, with MaxInputs observer events
Next ==
    \/ DevOnMessage
    \/ DevWriteState
    \/ DevPublishRead
    \/ DevPublishSend
    \/ SimCheckAlarm
    \/ SimCheckSelf
    \/ SimWriteActive
    \/ SimPublishRead
    \/ SimPublishSend
    \/ SimWriteInactive
    \/ OnMessageReceive
    \/ OnMessageAcquire
    \/ OnMessageApply
    \/ HandleConnect
    \/ HandleVoiceCommand
    \/ VoiceNotUnderstood
    \/ ObsAcquire
    \/ ObsRead
    \/ ObsRelease
    \/ VoicePublish

Spec == Init /\ [][Next]_vars

\* The threads.  Each runs for the life of its process and is scheduled again
\* and again: the device process' network loop (loop_forever), the thread of
\* simulate_motion, the controller's network loop, the thread serving observer
\* events.
DeviceThread == DevOnMessage \/ DevWriteState \/ DevPublishRead \/ DevPublishSend

SimThread ==
    \/ SimCheckAlarm
    \/ SimCheckSelf
    \/ SimWriteActive
    \/ SimPublishRead
    \/ SimPublishSend
    \/ SimWriteInactive

ControllerThread == OnMessageReceive \/ OnMessageAcquire \/ OnMessageApply

ObserverThread ==
    VoiceNotUnderstood \/ ObsAcquire \/ ObsRead \/ ObsRelease \/ VoicePublish

\* A thread that can take a step eventually takes one.  client.publish never
\* waits in the code: the room a publish needs on a topic is only a bound of
\* the model, so a publish that has room again and again is made (SF).
Fairness ==
    /\ WF_vars(DeviceThread)
    /\ WF_vars(SimThread)
    /\ WF_vars(ControllerThread)
    /\ WF_vars(ObserverThread)
    /\ SF_vars(DevPublishSend)
    /\ SF_vars(SimPublishSend)

\* both processes, every thread scheduled fairly
FairSpec == Init /\ [][Next]_vars /\ Fairness

\* one process alone, the device process or the controller, with any
\* publisher on the topic it has subscribed to; what it publishes is dropped
InitAlone ==
    /\ devState = InitialDeviceState
    /\ cmdChan = << >>
    /\ statusChan = << >>
    /\ cmdh = CmdIdle
    /\ sim = SimSleep
    /\ device_states = InitialStore
    /\ state_lock = "free"
    /\ om = OmIdle
    /\ omOut = NoOutput
    /\ lastApplied = [d \in DeviceIds |-> NotYet]
    /\ obs = ObsIdle
    /\ \E p \in {"devices", "controller"} : running = {p}
    /\ nInputs = 0

NextAlone ==
    \/ CommandPublished
    \/ StatusPublished
    \/ Next

SpecAlone == InitAlone /\ [][NextAlone]_vars

\* the controller alone, with no publisher on the status topic, given any
\* texts of up to MaxWords words
InitNlp ==
    /\ devState = InitialDeviceState
    /\ cmdChan = << >>
    /\ statusChan = << >>
    /\ cmdh = CmdIdle
    /\ sim = SimSleep
    /\ device_states = InitialStore
    /\ state_lock = "free"
    /\ om = OmIdle
    /\ omOut = NoOutput
    /\ lastApplied = [d \in DeviceIds |-> NotYet]
    /\ obs = ObsIdle
    /\ running = {"controller"}
    /\ nInputs = 0

NextNlp ==
    \/ HandlePhrase
    \/ VoiceNotUnderstood
    \/ ObsAcquire
    \/ ObsRead
    \/ ObsRelease
    \/ VoicePublish

SpecNlp == InitNlp /\ [][NextNlp]_vars

-----------------------------------------------------------------------------
(* Claims *)

\* the device process is not between a write of d's state and the end of the
\* publish_status that follows it
AtRest(d) ==
    /\ ~(cmdh.pc \in {"pub_read", "pub_send"} /\ cmdh.dev = d)
    /\ d = SENSOR =>
          sim.pc \notin {"pub_read_active", "pub_send_active",
                         "pub_read_inactive", "pub_send_inactive"}

\* every Status Event for d has been received and applied by the controller
Delivered(d) ==
    /\ \A i \in 1..Len(statusChan) : statusChan[i].device_id # d
    /\ ~(om.pc # "idle" /\ om.device_id = d)

\* C1: for every device, in any state where every Status Event the device has
\* published has been delivered to the controller (in publish order), the
\* Store's state for the device equals the device agent's current state.
C1_StoreConverges ==
    \A d \in DeviceIds :
        (AtRest(d) /\ Delivered(d)) => device_states[d] = devState[d]


\* C2: at every step where simulate_motion writes state "active", the alarm
\* agent's current state is "armed", whatever the draws and however alarm
\* commands are handled in between.
C2_MotionOnlyWhileArmed == [][SimWriteActive => devState[ALARM] = "armed"]_vars

\* simulate_motion is between its read of self.state (line 100) and the end
\* of the publish_status that follows its write (line 103)
SimInSection == sim.pc \in {"write_active", "pub_read_active", "pub_send_active"}

\* the sensor's process_command is between its read of self.state (line 88)
\* and the end of its publish_status (line 91)
CommandInSection == cmdh.dev = SENSOR /\ cmdh.pc \in {"write", "pub_read", "pub_send"}

\* C3: on the motion sensor, the autonomous loop and process_command are never
\* both between their read of self.state and the end of their publish.
C3_SensorSectionExclusive == ~(SimInSection /\ CommandInSection)

\* C4: once process_command has returned for an accepted command: if the
\* command mapped to a state other than the one read, exactly one Status Event
\* was published (and for the door lock and the alarm, which no other thread
\* writes, the state is the mapped one and the event carries it); if it mapped
\* to the state read, no event was published and the state is as it was.  While
\* the call is between its write and its publish, it has published nothing.
C4_TransitionRule ==
    /\ cmdh.pc \in {"write", "pub_read", "pub_send"} =>
          cmdh.before # cmdh.new /\ cmdh.events = 0
    /\ (cmdh.pc = "idle" /\ cmdh.dev \in DeviceIds /\ cmdh.new # Unsupported) =>
          IF cmdh.before # cmdh.new
          THEN /\ cmdh.events = 1
               /\ cmdh.dev # SENSOR =>
                     devState[cmdh.dev] = cmdh.new /\ cmdh.payload = cmdh.new
          ELSE /\ cmdh.events = 0
               /\ cmdh.payload = None
               /\ cmdh.dev # SENSOR => devState[cmdh.dev] = cmdh.before

\* the door lock, locked, has handled "unlock": unlocked, one event
C4_Witness ==
    /\ cmdh.pc = "idle"
    /\ cmdh.dev = DOOR
    /\ cmdh.before = "locked"
    /\ cmdh.new = "unlocked"
    /\ cmdh.events = 1
    /\ devState[DOOR] = "unlocked"


\* C5: applying to the Store the status event that was last applied for the
\* same device changes nothing and notifies nobody: the Store is unchanged,
\* no state-change log entry is sent and no state snapshot is broadcast.
C5_DuplicateIsSilent ==
    [][(OnMessageApply /\ InStore(om.device_id)
                       /\ lastApplied[om.device_id] = om.state)
         => (device_states' = device_states /\ omOut' = NoOutput)]_vars

\* on_message handles a payload that is not JSON
BadJsonStep == OnMessageReceive /\ ~Head(statusChan).json

\* on_message applies a payload that lacks device_id or state
MissingFieldStep == OnMessageApply /\ (om.device_id = None \/ om.state = None)

\* C6: a malformed status message (not JSON, or JSON without device_id or
\* without state) is dropped: the Store is unchanged, no snapshot is broadcast
\* and the handler is ready for the next message.
C6_MalformedDropped ==
    [][(BadJsonStep \/ MissingFieldStep)
         => (device_states' = device_states /\ omOut' = NoOutput /\ om' = OmIdle)]_vars

\* the device process handles a command for an id that is no device
UnknownCommandStep ==
    DevOnMessage /\ Head(cmdChan).json /\ Head(cmdChan).device_id \notin DeviceIds

\* the controller handles a status for an id that is no device
UnknownStatusStep ==
    \/ OnMessageReceive /\ Head(statusChan).json
                        /\ Head(statusChan).device_id \notin DeviceIds
    \/ (OnMessageAcquire \/ OnMessageApply) /\ om.device_id \notin DeviceIds

\* C7: a command for an id outside the device set leaves every agent's state
\* unchanged, publishes no Status Event and calls no agent; a status for such
\* an id leaves every Store entry unchanged, adds none and notifies nobody;
\* both handlers end ready for the next message.
C7_UnknownDeviceIgnored ==
    [][ /\ UnknownCommandStep =>
              /\ devState' = devState
              /\ statusChan' = statusChan
              /\ cmdh'.pc = "idle" /\ cmdh'.new = None /\ cmdh'.events = 0
        /\ UnknownStatusStep =>
              /\ device_states' = device_states
              /\ DOMAIN device_states' = DeviceIds
              /\ omOut' = NoOutput
              /\ OnMessageApply => om' = OmIdle
      ]_vars

\* a command for "garage_door" has been handled
C7_Witness ==
    /\ cmdh.pc = "idle"
    /\ cmdh.dev = "garage_door"
    /\ devState = InitialDeviceState

\* the commands of the model that map to no state of the device addressed
RejectedCommands ==
    { CommandMsg(DOOR, "disarmed"), CommandMsg(ALARM, "lock"),
      CommandMsg(SENSOR, "unlock"), CommandMsg(DOOR, None) }

\* C8: a command that maps to no valid state of the device addressed is
\* rejected: no agent's state changes, no Status Event is published, and the
\* handler is ready for the next command.
C8_UnrecognizedRejected ==
    [][(DevOnMessage /\ Head(cmdChan) \in RejectedCommands)
         => /\ devState' = devState
            /\ statusChan' = statusChan
            /\ cmdh'.pc = "idle" /\ cmdh'.new = Unsupported /\ cmdh'.events = 0
      ]_vars

\* "disarmed" sent to the door lock has been rejected, the door still locked
C8_Witness ==
    /\ cmdh.pc = "idle"
    /\ cmdh.dev = DOOR
    /\ cmdh.new = Unsupported
    /\ devState[DOOR] = "locked"

\* a reader is inside its  with state_lock  block
Reading == obs.pc \in {"c_read", "q_read"}

\* C9: no reader of the Store (handle_connect's snapshot, the status query's
\* report) is inside its read while on_message is inside its write, and what a
\* reader has read so far is what the Store holds: a completed snapshot equals
\* the Store at one point between two status applications.
C9_StoreSerialized ==
    /\ ~(Reading /\ om.pc = "locked")
    /\ Reading =>
          \A k \in 1..(obs.i - 1) :
              obs.snap[DeviceOrder[k]] = device_states[DeviceOrder[k]]

\* a status query holds its complete report of a Store that has changed,
\* while on_message waits for the lock with the next status
C9_Witness ==
    /\ obs.pc = "q_read"
    /\ obs.i > Len(DeviceOrder)
    /\ obs.snap = device_states
    /\ obs.snap # InitialStore
    /\ om.pc = "acquire"
    /\ om.device_id \in DeviceIds
    /\ om.state # device_states[om.device_id]

\* C10: each Store entry holds the state last applied for its own device id,
\* and an entry no status was applied to holds its initial state: no
\* application alters another device's entry, whatever the readers do.
C10_NoLostUpdate ==
    \A d \in DeviceIds :
        device_states[d] = IF lastApplied[d] = NotYet THEN InitialStore[d]
                           ELSE lastApplied[d]

\* statuses for the three devices have been applied, each entry holding its
\* own, while a reader is inside its read
C10_Witness ==
    /\ lastApplied[DOOR] = "unlocked"
    /\ lastApplied[ALARM] = "armed"
    /\ lastApplied[SENSOR] = "active"
    /\ device_states = lastApplied
    /\ Reading

-----------------------------------------------------------------------------
(* Claims about the interpreter and handle_voice_command *)

\* handle_voice_command is working on a text: obs.text is what it was given
Heard == obs.text # None

\* the directives process_nlp gave for the text being handled
Results == NlpResults[obs.text]

ForDoor(res) == res.device = DOOR
ForAlarm(res) == res.device = ALARM
ForSensor(res) == res.device = SENSOR

\* C11: keyword precedence.  For every text that mentions the front door,
\* process_nlp gives at most one door-lock directive: unlock whenever "unlock"
\* occurs, lock only when "lock" occurs without "unlock".  For every text
\* that mentions the alarm it gives at most one alarm directive: disarmed
\* whenever "disarm" occurs, armed only when "arm" occurs without "disarm".
\* Letter case does not count.
C11_KeywordPrecedence ==
    Heard =>
        LET text == Lower(obs.text)
            door == SelectSeq(Results, ForDoor)
            alarm == SelectSeq(Results, ForAlarm)
        IN  /\ (Contains(text, "front door") \/ Contains(text, "front-door")) =>
                 /\ Len(door) <= 1
                 /\ Contains(text, "unlock") => door = << Directive(DOOR, "unlock") >>
                 /\ door = << Directive(DOOR, "lock") >> <=>
                        (Contains(text, "lock") /\ ~Contains(text, "unlock"))
                 /\ \A i \in 1..Len(door) : door[i].action \in {"lock", "unlock"}
            /\ Contains(text, "alarm") =>
                 /\ Len(alarm) <= 1
                 /\ Contains(text, "disarm") => alarm = << Directive(ALARM, "disarmed") >>
                 /\ alarm = << Directive(ALARM, "armed") >> <=>
                        (Contains(text, "arm") /\ ~Contains(text, "disarm"))
                 /\ \A i \in 1..Len(alarm) : alarm[i].action \in {"armed", "disarmed"}

\* a text about the front door with "Unlock" in it, with or without a
\* separate "lock", has been interpreted as unlock
C11_Witness ==
    /\ obs.text \in {"lock Unlock front door", "Unlock front door"}
    /\ obs.todo = << Directive(DOOR, "unlock") >>

\* the text being handled contains none of the phrases that select a rule
NoRuleSelected ==
    ~ContainsAny(Lower(obs.text),
                 {"front door", "front-door", "alarm", "living room",
                  "living-room", "status", "report"})

\* C12: unparseable text.  For every text in which no rule triggers,
\* process_nlp returns the empty list; handle_voice_command, for every text
\* it takes up (an empty text is ignored before process_nlp is called), then
\* makes no publish attempt, leaves the command topic and the Store as they
\* are, emits the "Could not understand command" log entry, and returns.
C12_NotUnderstood ==
    /\ [](NlpResults[""] = << >>)
    /\ [](Heard /\ NoRuleSelected => Results = << >>)
    /\ [](Heard /\ Results = << >> =>
            obs.pc = "not_understood" /\ obs.tried = << >> /\ obs.logs = << >>)
    /\ [][obs.pc = "not_understood" /\ obs' # obs =>
            /\ obs' = ObsIdle
            /\ cmdChan' = cmdChan
            /\ device_states' = device_states]_vars

\* a text without any keyword is being reported as not understood
C12_Witness ==
    /\ obs.pc = "not_understood"
    /\ obs.text = "Unlock motion"
    /\ NoRuleSelected

\* the position of a directive's category in process_nlp
Rank(res) ==
    IF res.device = DOOR THEN 1
    ELSE IF res.device = ALARM THEN 2
    ELSE IF res.device = SENSOR THEN 3
    ELSE 4

\* C13: directive ordering and independence.  For every text the directives
\* process_nlp returns are in the order door lock, alarm, motion sensor,
\* status query; the directives of each category are those its own rule gives
\* for the text, whatever the other rules give; a status query is present
\* exactly when the text contains "status" or "report" and removes no device
\* directive.  "turn on living room sensor and report status" gives
\* {sensor, active} followed by the status query.
C13_OrderedIndependent ==
    /\ NlpResults["turn on living room sensor and report status"]
           = << Directive(SENSOR, "active"), QueryStatus >>
    /\ Heard =>
        LET text == Lower(obs.text)
        IN  /\ \A i, j \in 1..Len(Results) :
                   i < j => Rank(Results[i]) <= Rank(Results[j])
            /\ SelectSeq(Results, ForDoor) = DoorRule(text)
            /\ SelectSeq(Results, ForAlarm) = AlarmRule(text)
            /\ SelectSeq(Results, ForSensor) = SensorRule(text)
            /\ SelectSeq(Results, IsQuery) =
                   IF Contains(text, "status") \/ Contains(text, "report")
                   THEN << QueryStatus >> ELSE << >>
            /\ SelectSeq(Results, IsActionable) =
                   DoorRule(text) \o AlarmRule(text) \o SensorRule(text)

\* a text with a sensor keyword and "status" is being handled: one query to
\* report and the sensor directive to publish
C13_Witness ==
    /\ obs.text = "turn on living room status"
    /\ obs.queries = 1
    /\ obs.todo = << Directive(SENSOR, "active") >>

\* the directives handle_voice_command has tried to publish so far
Attempted == [i \in 1..Len(obs.tried) |-> obs.tried[i].res]

\* C14: publish-failure isolation.  In the publish loop of
\* handle_voice_command the directives already tried followed by those still
\* to do are the actionable directives of the text, in order, and every
\* attempt has its own log entry, "failed" for a failed one; an iteration,
\* failed or not, goes on to the next directive and the handler returns only
\* after the last one.
C14_PublishIsolation ==
    /\ [](obs.pc = "publish" =>
            /\ obs.todo # << >>
            /\ Attempted \o obs.todo = SelectSeq(Results, IsActionable)
            /\ Len(obs.logs) = Len(obs.tried)
            /\ \A i \in 1..Len(obs.tried) :
                   obs.logs[i] = IF obs.tried[i].ok THEN "published" ELSE "failed")
    /\ [][obs.pc = "publish" /\ obs' # obs =>
            IF Len(obs.todo) = 1 THEN obs' = ObsIdle
            ELSE /\ obs'.pc = "publish"
                 /\ obs'.todo = Tail(obs.todo)
                 /\ Len(obs'.tried) = Len(obs.tried) + 1
                 /\ obs'.tried[Len(obs'.tried)].res = Head(obs.todo)]_vars

\* in a batch of several directives the first publish has failed and the next
\* directive is about to be tried
C14_Witness ==
    /\ obs.pc = "publish"
    /\ Len(obs.tried) = 1
    /\ ~obs.tried[1].ok
    /\ obs.logs = << "failed" >>
    /\ obs.todo # << >>

\* C15: the Store is mutated only by applying Status Events.  Every step that
\* changes an entry of device_states is the write of on_message, made while
\* it holds state_lock; no step of handle_voice_command or handle_connect
\* changes it, whatever the text.
C15_StoreWrittenByStatusOnly ==
    [][device_states' # device_states =>
          /\ om.pc = "locked"
          /\ state_lock = "mqtt"
          /\ om'.pc = "idle"
          /\ obs' = obs]_vars

\* "unlock the front door" has been handled and its command is on the
\* command topic; the Store still shows the door locked
C15_Witness ==
    /\ obs.pc = "idle"
    /\ cmdChan = << CommandMsg(DOOR, "unlock") >>
    /\ device_states[DOOR] = "locked"
    /\ devState[DOOR] = "locked"

-----------------------------------------------------------------------------
(* Claims about whole runs *)

\* C16: autonomous detection completes.  Whenever simulate_motion has set the
\* sensor to active, the loop eventually sets it back to inactive and then
\* publishes an inactive Status Event, whatever commands are handled in
\* between.
C16_DetectionCompletes ==
    (sim.pc = "pub_read_active") ~>
        (sim.pc = "pub_send_inactive" /\ sim.payload = "inactive")

\* the action tokens process_nlp puts in a directive for d
DirectiveActions(d) ==
    IF d = DOOR THEN {"lock", "unlock"}
    ELSE IF d = ALARM THEN {"armed", "disarmed"}
    ELSE {"active", "inactive"}

\* the command c for d is on the command topic, no later command for d is
\* behind it, and none will be published: the handler has no directive for d
\* left and no further text is coming
LastIssued(d, c) ==
    /\ nInputs = MaxInputs
    /\ obs.pc \in {"idle", "publish"}
    /\ \A i \in 1..Len(obs.todo) : obs.todo[i].device # d
    /\ \E i \in 1..Len(cmdChan) :
          /\ cmdChan[i] = CommandMsg(d, c)
          /\ \A j \in (i + 1)..Len(cmdChan) : cmdChan[j].device_id # d

\* the state a directive's action token stands for
TargetState(c) ==
    IF c = "lock" THEN "locked" ELSE IF c = "unlock" THEN "unlocked" ELSE c

\* on_message has written state for d into the Store, broadcasting the
\* snapshot with it, and the Store shows it
Shown(d, state) == device_states[d] = state /\ lastApplied[d] = state

-----------------------------------------------------------------------------
(* Further claims about the interpreter and the Store *)

\* C18: interpreter/agent compatibility.  Every device directive process_nlp
\* produces names one of the three devices and carries an action token that
\* device's process_command accepts, so the agent does not reject it.
C18_DirectivesAccepted ==
    Heard =>
        \A i \in 1..Len(Results) :
            IsActionable(Results[i]) =>
                /\ Route(Results[i].device) = Results[i].device
                /\ NewState(Results[i].device, Results[i].action) # Unsupported
                /\ NewState(Results[i].device, Results[i].action)
                       = TargetState(Results[i].action)

\* a text with directives for the alarm and the sensor is being handled
C18_Witness ==
    /\ obs.pc = "publish"
    /\ obs.text = "alarm living room turn off"
    /\ obs.todo = << Directive(ALARM, "armed"), Directive(SENSOR, "inactive") >>
    /\ NewState(ALARM, "armed") = "armed"
    /\ NewState(SENSOR, "inactive") = "inactive"

\* the states of each device kind
StateEnum(d) ==
    IF d = DOOR THEN {"locked", "unlocked"}
    ELSE IF d = ALARM THEN {"armed", "disarmed"}
    ELSE {"active", "inactive"}

\* C19: Store state domain.  In every reachable state each Store entry holds a
\* state of its device kind, whatever status messages arrive.
C19_StoreDomain == \A d \in DeviceIds : device_states[d] \in StateEnum(d)

\* w occurs in text as a word (or as consecutive words)
HasWord(text, w) == Contains(" " \o text \o " ", " " \o w \o " ")

HasAnyWord(text, ws) == \E w \in ws : HasWord(text, w)

\* the directive is among those process_nlp gave for the text being handled
Gives(res) == \E i \in 1..Len(Results) : Results[i] = res

\* C20: action keywords are matched as whole words.  process_nlp gives a
\* device directive only when its action keyword is a word of the text: no
\* alarm directive without the word arm or disarm, no sensor directive without
\* a turn-on word (for active) or a turn-off word (for inactive).
C20_WholeWords ==
    Heard =>
        LET text == Lower(obs.text)
        IN  /\ Gives(Directive(DOOR, "unlock")) => HasWord(text, "unlock")
            /\ Gives(Directive(DOOR, "lock")) => HasWord(text, "lock")
            /\ Gives(Directive(ALARM, "disarmed")) => HasWord(text, "disarm")
            /\ Gives(Directive(ALARM, "armed")) => HasWord(text, "arm")
            /\ Gives(Directive(SENSOR, "active")) =>
                   HasAnyWord(text, {"activate", "turn on", "enable", "on"})
            /\ Gives(Directive(SENSOR, "inactive")) =>
                   HasAnyWord(text, {"deactivate", "turn off", "disable", "off"})


====
